---------------------------- MODULE Spec2Model ----------------------------
(***************************************************************************)
(* Model of the clock-tree frequency resolver of sodaCat                   *)
(* (src/generators/cxx/clocktree.hpp): ClockTree::getFrequency and the     *)
(* five get_frequency overloads, stepped as a call stack over the static   *)
(* tables of a Base and the live register state.                           *)
(*                                                                         *)
(* The resolver computes with uint32_t, uint64_t, size_t and double, all   *)
(* wider than the integers of the model checker.  Numbers are therefore    *)
(* kept as exact naturals in radix 10^4 (little-endian sequences of limbs  *)
(* without leading zero limbs), and the machine widths are applied         *)
(* explicitly where the code applies them.                                 *)
(***************************************************************************)
EXTENDS Integers, Sequences, FiniteSets, TLC

(***************************************************************************)
(* Exact natural numbers.                                                  *)
(***************************************************************************)
Radix == 10 ^ 4

Zero == << >>

RECURSIVE Norm(_)
Norm(a) ==
    IF a = << >> THEN << >>
    ELSE IF a[Len(a)] = 0 THEN Norm(SubSeq(a, 1, Len(a) - 1))
    ELSE a

RECURSIVE FromInt(_)
FromInt(n) ==
    IF n = 0 THEN << >> ELSE <<n % Radix>> \o FromInt(n \div Radix)

RECURSIVE ToInt(_)
ToInt(a) ==
    IF a = << >> THEN 0 ELSE a[1] + Radix * ToInt(Tail(a))

RECURSIVE Reverse(_)
Reverse(s) ==
    IF s = << >> THEN << >> ELSE Append(Reverse(Tail(s)), Head(s))

\* Num(<<42, 9496, 7295>>) is 4294967295: decimal groups of four digits.
Num(groups) == Norm(Reverse(groups))

One == FromInt(1)

Limb(a, i) == IF i <= Len(a) THEN a[i] ELSE 0

RECURSIVE CmpFrom(_, _, _)
CmpFrom(a, b, i) ==
    IF i = 0 THEN 0
    ELSE IF a[i] < b[i] THEN -1
    ELSE IF a[i] > b[i] THEN 1
    ELSE CmpFrom(a, b, i - 1)

Cmp(a, b) ==
    IF Len(a) < Len(b) THEN -1
    ELSE IF Len(a) > Len(b) THEN 1
    ELSE CmpFrom(a, b, Len(a))

Less(a, b) == Cmp(a, b) < 0
Leq(a, b) == Cmp(a, b) <= 0

RECURSIVE AddFrom(_, _, _, _)
AddFrom(a, b, i, carry) ==
    IF i > Len(a) /\ i > Len(b)
    THEN IF carry = 0 THEN << >> ELSE <<carry>>
    ELSE LET t == Limb(a, i) + Limb(b, i) + carry
         IN  <<t % Radix>> \o AddFrom(a, b, i + 1, t \div Radix)

Add(a, b) == AddFrom(a, b, 1, 0)

RECURSIVE SubFrom(_, _, _, _)
SubFrom(a, b, i, borrow) ==
    IF i > Len(a) THEN << >>
    ELSE LET t == a[i] - Limb(b, i) - borrow
         IN  IF t < 0
             THEN <<t + Radix>> \o SubFrom(a, b, i + 1, 1)
             ELSE <<t>> \o SubFrom(a, b, i + 1, 0)

\* a - b for b <= a
Sub(a, b) == Norm(SubFrom(a, b, 1, 0))

RECURSIVE MulSmallFrom(_, _, _, _)
MulSmallFrom(a, d, i, carry) ==
    IF i > Len(a)
    THEN IF carry = 0 THEN << >> ELSE <<carry>>
    ELSE LET t == a[i] * d + carry
         IN  <<t % Radix>> \o MulSmallFrom(a, d, i + 1, t \div Radix)

\* a * d for a limb d
MulSmall(a, d) == IF d = 0 THEN << >> ELSE MulSmallFrom(a, d, 1, 0)

ShiftLimbs(a, k) ==
    IF a = << >> THEN << >> ELSE [i \in 1..k |-> 0] \o a

RECURSIVE MulFrom(_, _, _)
MulFrom(a, b, i) ==
    IF i > Len(b) THEN << >>
    ELSE Add(ShiftLimbs(MulSmall(a, b[i]), i - 1), MulFrom(a, b, i + 1))

Mul(a, b) == MulFrom(a, b, 1)

\* the largest limb d in lo..hi with b * d <= r (b * lo <= r is given)
RECURSIVE QuotDigit(_, _, _, _)
QuotDigit(r, b, lo, hi) ==
    IF lo = hi THEN lo
    ELSE LET mid == (lo + hi + 1) \div 2
         IN  IF Leq(MulSmall(b, mid), r)
             THEN QuotDigit(r, b, mid, hi)
             ELSE QuotDigit(r, b, lo, mid - 1)

\* long division of the limbs a[1..i] after the higher ones left remainder r
RECURSIVE DivFrom(_, _, _, _, _)
DivFrom(a, b, i, q, r) ==
    IF i = 0 THEN [q |-> Norm(q), r |-> r]
    ELSE LET cur == Norm(<<a[i]>> \o r)
             d == QuotDigit(cur, b, 0, Radix - 1)
         IN  DivFrom(a, b, i - 1, <<d>> \o q, Sub(cur, MulSmall(b, d)))

\* quotient and remainder of a by b, b nonzero
DivMod(a, b) == DivFrom(a, b, Len(a), << >>, << >>)

Quot(a, b) == DivMod(a, b).q
Rem(a, b) == DivMod(a, b).r

RECURSIVE Pow2(_)
Pow2(k) ==
    IF k = 0 THEN One
    ELSE IF k >= 13 THEN MulSmall(Pow2(k - 13), 8192)
    ELSE MulSmall(Pow2(k - 1), 2)

RECURSIVE BitLenFrom(_, _)
BitLenFrom(a, k) == IF Less(a, Pow2(k)) THEN k ELSE BitLenFrom(a, k + 1)

\* number of significant bits: the least k with a < 2^k
BitLen(a) == IF a = << >> THEN 0 ELSE BitLenFrom(a, 13 * (Len(a) - 1))

Odd(a) == a # << >> /\ a[1] % 2 = 1

\* the low w bits of a: conversion to an unsigned type of width w
Wrap(a, w) == Rem(a, Pow2(w))

(***************************************************************************)
(* Machine types of the resolver.                                          *)
(***************************************************************************)
\* uint32_t: the return type of getFrequency and of a register read
U32Bits == 32
\* uint64_t: Divider's input_freq, and the type its product is formed in
U64Bits == 64
\* size_t, on the LP64 targets of the test build
SizeBits == 64
\* significand of a double (binary64), hidden bit included
MantBits == 53
\* the literal 65536.0 the fractional feedback is divided by
FracDenom == 65536

U32Max == Sub(Pow2(U32Bits), One)

(***************************************************************************)
(* binary64 arithmetic on the values the Pll formula produces: all are     *)
(* non-negative, so a value is m * 2^e with a significand m < 2^53, or     *)
(* +infinity, or a NaN.  Every operation rounds to nearest, ties to even.  *)
(* The exponent range of binary64 is never approached (the operands are    *)
(* 32-bit integers), so no overflow to infinity and no subnormals arise.   *)
(* Expressions are evaluated in double, not in a wider format.             *)
(***************************************************************************)
Fin(m, e) == [cls |-> "fin", m |-> m, e |-> e]
Inf == [cls |-> "inf"]
NaN == [cls |-> "nan"]

\* the double nearest to (n + s) * 2^e, where 0 < s < 1 if sticky, else s = 0
RoundNearestEven(n, e, sticky) ==
    LET len == BitLen(n)
    IN  IF len <= MantBits THEN Fin(n, e)
        ELSE LET drop == len - MantBits
                 qr == DivMod(n, Pow2(drop))
                 half == Cmp(qr.r, Pow2(drop - 1))
                 up == half > 0 \/ (half = 0 /\ (sticky \/ Odd(qr.q)))
             IN  Fin(IF up THEN Add(qr.q, One) ELSE qr.q, e + drop)

\* integer to double conversion
DblFromNat(n) == RoundNearestEven(n, 0, FALSE)

DblAdd(x, y) ==
    LET e == IF x.e < y.e THEN x.e ELSE y.e
    IN  RoundNearestEven(Add(Mul(x.m, Pow2(x.e - e)), Mul(y.m, Pow2(y.e - e))),
                         e, FALSE)

DblMul(x, y) == RoundNearestEven(Mul(x.m, y.m), x.e + y.e, FALSE)

\* x / y for finite x, y; IEC 60559 gives 0/0 = NaN and x/0 = +infinity
DblDiv(x, y) ==
    IF y.m = Zero THEN (IF x.m = Zero THEN NaN ELSE Inf)
    ELSE IF x.m = Zero THEN Fin(Zero, 0)
    ELSE LET k == MantBits + 2 + BitLen(y.m)
             qr == DivMod(Mul(x.m, Pow2(k)), y.m)
         IN  RoundNearestEven(qr.q, x.e - y.e - k, qr.r # Zero)

\* the integer part of a finite double
DblTrunc(x) ==
    IF x.e >= 0 THEN Mul(x.m, Pow2(x.e)) ELSE Quot(x.m, Pow2(0 - x.e))

\* [conv.fpint]: double to uint32_t truncates, and is undefined when the
\* truncated value is not representable (so also for infinity and NaN)
DblFitsU32(x) == x.cls = "fin" /\ Less(DblTrunc(x), Pow2(U32Bits))


(***************************************************************************)
(* The tables of a Base.  Signal, register-field and element numbers are   *)
(* the enumerators' values (from 0), so row i of a table is At(table, i).  *)
(* Generators take the element values 1..last_gen, Plls the next ones up   *)
(* to last_pll, then Gates, Dividers and Muxes; element 0 is "no source".  *)
(* Every table holds exactly one record per element of its kind.           *)
(***************************************************************************)
At(table, i) == table[i + 1]

Hz(n) == FromInt(n)

\* gates and muxes over two generators
TreeBase ==
    [ signals    |-> << [source |-> 1], [source |-> 2], [source |-> 3],
                        [source |-> 4], [source |-> 5], [source |-> 6],
                        [source |-> 7], [source |-> 8] >>,
      generators |-> << [output |-> 0, control |-> 0,
                         values |-> << Hz(48000000) >>],
                        [output |-> 1, control |-> 1,
                         values |-> << Hz(1000), Hz(2000), Hz(3000), Hz(4000) >>] >>,
      plls       |-> << >>,
      gates      |-> << [input |-> 0, output |-> 2, control |-> 2],
                        [input |-> 1, output |-> 3, control |-> 3],
                        [input |-> 3, output |-> 4, control |-> 2] >>,
      dividers   |-> << >>,
      muxes      |-> << [output |-> 5, inputs |-> <<0, 1>>, control |-> 3],
                        [output |-> 6, inputs |-> <<0, 1, 2>>, control |-> 3],
                        [output |-> 7, inputs |-> <<5, 0>>, control |-> 0] >>,
      register_fields |-> << [get |-> FALSE], [get |-> TRUE], [get |-> TRUE],
                             [get |-> TRUE] >>,
      domain     |-> << {Zero}, {Zero, Hz(2), Hz(9)}, {Zero, One},
                        {Zero, One, Hz(2), Hz(5)} >> ]

\* one generator feeding Plls
PllBase ==
    [ signals    |-> << [source |-> 1], [source |-> 2], [source |-> 3],
                        [source |-> 4] >>,
      generators |-> << [output |-> 0, control |-> 1,
                         values |-> << Hz(1000000), Hz(8000000),
                                       Num(<<41, 8724, 4343>>),
                                       Num(<<42, 9496, 7295>>) >>] >>,
      plls       |-> << [input |-> 0, output |-> 1, feedback_integer |-> 2,
                         feedback_fraction |-> 3, post_divider |-> 4],
                        [input |-> 0, output |-> 2, feedback_integer |-> 2,
                         feedback_fraction |-> 3, post_divider |-> 4],
                        [input |-> 0, output |-> 3, feedback_integer |-> 0,
                         feedback_fraction |-> 0, post_divider |-> 0] >>,
      gates      |-> << >>,
      dividers   |-> << >>,
      muxes      |-> << >>,
      register_fields |-> << [get |-> FALSE], [get |-> TRUE], [get |-> TRUE],
                             [get |-> TRUE], [get |-> TRUE] >>,
      domain     |-> << {Zero}, {Zero, One, Hz(2), Hz(3)}, {Hz(50), Hz(32)},
                        {Zero, Hz(32768), Hz(57721)},
                        {Zero, One, Hz(2), Hz(41)} >> ]

\* one generator feeding Dividers
DividerBase ==
    [ signals    |-> << [source |-> 1], [source |-> 2], [source |-> 3],
                        [source |-> 4], [source |-> 5] >>,
      generators |-> << [output |-> 0, control |-> 1,
                         values |-> << Hz(100000000),
                                       Num(<<42, 9496, 7295>>) >>] >>,
      plls       |-> << >>,
      gates      |-> << >>,
      dividers   |-> << [input |-> 0, output |-> 1, value |-> 2,
                         factor |-> 0, denominator |-> 0],
                        [input |-> 0, output |-> 2, value |-> 4,
                         factor |-> 0, denominator |-> 0],
                        [input |-> 0, output |-> 3, value |-> 1,
                         factor |-> 2, denominator |-> 3],
                        [input |-> 0, output |-> 4, value |-> 0,
                         factor |-> 0, denominator |-> 0] >>,
      muxes      |-> << >>,
      register_fields |-> << [get |-> FALSE], [get |-> TRUE], [get |-> TRUE],
                             [get |-> TRUE] >>,
      domain     |-> << {Zero}, {Zero, One},
                        {Zero, Hz(5), Num(<<42, 9496, 7295>>)},
                        {One, Hz(50), Num(<<42, 9496, 7295>>)} >> ]

Bases == << TreeBase, PllBase, DividerBase >>

\* Base::Ix, the last element value of each kind
last_gen(b) == Len(b.generators)
last_pll(b) == last_gen(b) + Len(b.plls)
last_gate(b) == last_pll(b) + Len(b.gates)
last_div(b) == last_gate(b) + Len(b.dividers)
last_mux(b) == last_div(b) + Len(b.muxes)

Fields(b) == 0 .. Len(b.register_fields) - 1

\* the register states of a Base: one value per field that can be read
RegStates(b) ==
    { r \in [Fields(b) -> UNION { At(b.domain, f) : f \in Fields(b) }] :
        \A f \in Fields(b) : r[f] \in At(b.domain, f) }

\* deepest call stack the model follows
MaxDepth == 5


(***************************************************************************)
(* State.                                                                  *)
(***************************************************************************)
VARIABLES
    base,       \* which Base the ClockTree is instantiated with
    regs,       \* the live value of every register field
    stack,      \* the getFrequency activations, innermost last
    status,     \* "idle", "running", "done", "fault" or "overflow"
    arg,        \* the signal the caller asked for
    result,     \* what the outermost getFrequency returned
    accessLog,  \* the accessor invocations of the current call, in order
    undef,      \* the undefined operations the current call has executed
    last,       \* the element evaluation that returned most recently
    prev,       \* the outcome of the preceding call for the same signal
    ncalls      \* getFrequency activations started by the current call

vars == << base, regs, stack, status, arg, result, accessLog, undef, last,
           prev, ncalls >>

B == Bases[base]

top == stack[Len(stack)]

NoEval == [kind |-> "none"]
NoPrev == [known |-> FALSE]

NewFrame(s, id, start) ==
    [ sig |-> s, id |-> id, pc |-> "entry", kind |-> "none", elem |-> 0,
      off |-> 0, rec |-> NoEval, reads |-> << >>, vals |-> NoEval,
      calls |-> << >>, ret |-> Zero, logStart |-> start, childLen |-> 0 ]

(***************************************************************************)
(* Pieces of getFrequency and get_frequency.                               *)
(***************************************************************************)
\* static_cast<size_t>(s) of an enumerator value, negative ones included
ToSizeT(s) ==
    IF s >= 0 THEN FromInt(s) ELSE Sub(Pow2(SizeBits), FromInt(0 - s))

\* the range check written  index > Base::signals.size()
SignalInRangeInclusive(b, index) == Leq(index, FromInt(Len(b.signals)))

\* the negation of  index >= Base::signals.size()
SignalInRange(b, index) == Less(index, FromInt(Len(b.signals)))

\* Base::signals[index].source; reading past the table is undefined
SourceOf(b, index) ==
    IF Less(index, FromInt(Len(b.signals)))
    THEN {At(b.signals, ToInt(index)).source}
    ELSE 0 .. last_mux(b)

\* the chain of boundary tests: the kind and the table offset of an element
Dispatch(b, elem) ==
    IF elem = 0 THEN [kind |-> "none", off |-> 0]
    ELSE IF elem <= last_gen(b) THEN [kind |-> "gen", off |-> elem - 1]
    ELSE IF elem <= last_pll(b)
         THEN [kind |-> "pll", off |-> elem - last_gen(b)]
    ELSE IF elem <= last_gate(b)
         THEN [kind |-> "gate", off |-> elem - last_pll(b)]
    ELSE IF elem <= last_div(b)
         THEN [kind |-> "div", off |-> elem - last_gate(b)]
    ELSE IF elem <= last_mux(b)
         THEN [kind |-> "mux", off |-> elem - last_div(b)]
    ELSE [kind |-> "none", off |-> 0]

Table(b, kind) ==
    CASE kind = "gen" -> b.generators
      [] kind = "pll" -> b.plls
      [] kind = "gate" -> b.gates
      [] kind = "div" -> b.dividers
      [] kind = "mux" -> b.muxes

ZeroRecord(kind) ==
    CASE kind = "gen" -> [output |-> 0, control |-> 0, values |-> << >>]
      [] kind = "pll" -> [input |-> 0, output |-> 0, feedback_integer |-> 0,
                          feedback_fraction |-> 0, post_divider |-> 0]
      [] kind = "gate" -> [input |-> 0, output |-> 0, control |-> 0]
      [] kind = "div" -> [input |-> 0, output |-> 0, value |-> 0,
                          factor |-> 0, denominator |-> 0]
      [] kind = "mux" -> [output |-> 0, inputs |-> << >>, control |-> 0]

InTable(b, kind, off) == off < Len(Table(b, kind))

\* table[off]: the record, or, past the end of the table, whatever the
\* memory there holds, read as a record of the kind
Fetch(b, kind, off) ==
    IF InTable(b, kind, off) THEN {At(Table(b, kind), off)}
    ELSE {ZeroRecord(kind)} \cup
         {Table(b, kind)[i] : i \in 1 .. Len(Table(b, kind))}

\* Base::register_fields[field].get is not null
HasGet(b, field) == At(b.register_fields, field).get

\* the accessor invoked once for the test and once more for the value
FieldAccessTwice(b, visit, slot, field) ==
    IF HasGet(b, field)
    THEN << [op |-> "get", field |-> field, visit |-> visit, slot |-> slot],
            [op |-> "get", field |-> field, visit |-> visit, slot |-> slot] >>
    ELSE << >>

\* the accessor invocations of  get ? get(this) : fallback
FieldAccess(b, visit, slot, field) ==
    IF HasGet(b, field)
    THEN << [op |-> "get", field |-> field, visit |-> visit, slot |-> slot] >>
    ELSE << >>

\* the value of  get ? get(this) : fallback
FieldValue(b, r, field, fallback) ==
    IF HasGet(b, field) THEN r[field] ELSE fallback

\* Generator: the selected value, 0 past the end of the list
GeneratorResult(values, index) ==
    IF ~Less(index, FromInt(Len(values))) THEN Zero
    ELSE values[ToInt(index) + 1]

\* Pll: input_freq * (fb_int + fb_frac / 65536.0) / post_div, in double
PllDouble(input_freq, fb_int, fb_frac, post_div) ==
    LET fb == DblAdd(DblFromNat(fb_int),
                     DblDiv(DblFromNat(fb_frac), DblFromNat(FromInt(FracDenom))))
    IN  DblDiv(DblMul(DblFromNat(input_freq), fb), DblFromNat(post_div))

\* what uint32_t(d) may leave when the conversion is undefined: 0, the
\* saturated value (Arm VCVT), or the low bits of a wider conversion (x86-64)
UndefinedConversion(d) ==
    {Zero, U32Max} \cup
    (IF d.cls = "fin" THEN {Wrap(DblTrunc(d), U32Bits)} ELSE {})

\* a gate taken as active-low
GateOpenActiveLow(b, r, control) == HasGet(b, control) /\ r[control] = Zero

\* Gate:  get && get(this)
GateOpen(b, r, control) == HasGet(b, control) /\ r[control] # Zero

\* the product formed in uint32_t, as with  uint32_t input_freq
DividerResult32(input_freq, factor, denom) ==
    Wrap(Quot(Wrap(Mul(Wrap(input_freq, U32Bits), denom), U32Bits), factor),
         U32Bits)

\* Divider: uint32_t(input_freq * denom / factor), the product and the
\* quotient formed in uint64_t; factor is not 0
DividerResult(input_freq, factor, denom) ==
    Wrap(Quot(Wrap(Mul(Wrap(input_freq, U64Bits), denom), U64Bits), factor),
         U32Bits)

\* what an integer division by zero may leave where it does not trap
UndefinedQuotient == {Zero, U32Max}

\* Mux: whether the selector picks an input
MuxInRange(inputs, index) == Less(index, FromInt(Len(inputs)))

\* the selector taken as counting the inputs from 1
MuxSelectedFromOne(inputs, index) ==
    inputs[IF index = Zero THEN 1 ELSE ToInt(index)]

\* Mux:  *std::next(mux.inputs.begin(), index), index in range
MuxSelected(inputs, index) == inputs[ToInt(index) + 1]

(***************************************************************************)
(* Call and return.                                                        *)
(***************************************************************************)
Summary(fr, v, log) ==
    [ sig |-> fr.sig, id |-> fr.id, kind |-> fr.kind, elem |-> fr.elem,
      off |-> fr.off, rec |-> fr.rec, reads |-> fr.reads, vals |-> fr.vals,
      calls |-> fr.calls, ret |-> fr.ret, out |-> v,
      logLen |-> Len(log) - fr.logStart, childLen |-> fr.childLen ]

\* the activation fr returns v, having logged up to log
Return(fr, v, log, tags) ==
    /\ accessLog' = log
    /\ undef' = undef \cup tags
    /\ last' = Summary(fr, v, log)
    /\ IF Len(stack) = 1
       THEN /\ stack' = << >>
            /\ status' = "done"
            /\ result' = v
       ELSE /\ stack' = [i \in 1 .. Len(stack) - 1 |->
                           IF i = Len(stack) - 1
                           THEN [stack[i] EXCEPT !.pc = "resume", !.ret = v,
                                     !.childLen = Len(log) - fr.logStart]
                           ELSE stack[i]]
            /\ UNCHANGED << status, result >>
    /\ UNCHANGED << base, regs, arg, prev, ncalls >>

\* the activation fr calls getFrequency(s); the stack the model follows
\* ends at MaxDepth, where the program runs out of stack
Push(fr, s, log) ==
    /\ accessLog' = log
    /\ IF Len(stack) < MaxDepth
       THEN /\ stack' = [stack EXCEPT ![Len(stack)] = fr] \o
                        << NewFrame(s, ncalls + 1, Len(log)) >>
            /\ ncalls' = ncalls + 1
            /\ UNCHANGED status
       ELSE /\ status' = "overflow"
            /\ UNCHANGED << stack, ncalls >>
    /\ UNCHANGED << base, regs, arg, result, undef, last, prev >>

\* an undefined operation stops the program
Trap(tags) ==
    /\ status' = "fault"
    /\ undef' = undef \cup tags
    /\ UNCHANGED << base, regs, stack, arg, result, accessLog, last, prev,
                    ncalls >>

ReadSet(log) == { log[i].field : i \in 1 .. Len(log) }

(***************************************************************************)
(* Actions.                                                                *)
(***************************************************************************)
Init ==
    /\ base \in 1 .. Len(Bases)
    /\ regs \in RegStates(Bases[base])
    /\ stack = << >>
    /\ status = "idle"
    /\ arg = 0
    /\ result = Zero
    /\ accessLog = << >>
    /\ undef = {}
    /\ last = NoEval
    /\ prev = NoPrev
    /\ ncalls = 0

\* the hardware, or other software, changes a register field
SetRegister(f, v) ==
    /\ status \in {"idle", "done"}
    /\ HasGet(B, f)
    /\ v # regs[f]
    /\ regs' = [regs EXCEPT ![f] = v]
    /\ status' = "idle"
    /\ arg' = 0
    /\ result' = Zero
    /\ accessLog' = << >>
    /\ undef' = {}
    /\ last' = NoEval
    /\ prev' = NoPrev
    /\ ncalls' = 0
    /\ UNCHANGED << base, stack >>

\* a caller invokes getFrequency(s)
Call(s) ==
    /\ status \in {"idle", "done"}
    /\ stack' = << NewFrame(s, 1, 0) >>
    /\ status' = "running"
    /\ arg' = s
    /\ result' = Zero
    /\ accessLog' = << >>
    /\ undef' = {}
    /\ last' = NoEval
    /\ ncalls' = 1
    /\ prev' = IF status = "done" /\ arg = s
               THEN [known |-> TRUE, result |-> result,
                     reads |-> ReadSet(accessLog)]
               ELSE NoPrev
    /\ UNCHANGED << base, regs >>

\* getFrequency: the range check, the source of the signal, the dispatch
GetFrequency ==
    /\ status = "running"
    /\ top.pc = "entry"
    /\ LET index == ToSizeT(top.sig)
       IN  IF ~SignalInRange(B, index)
           THEN Return(top, Zero, accessLog, {})
           ELSE \E elem \in SourceOf(B, index) :
                  LET d == Dispatch(B, elem)
                      tags == IF Less(index, FromInt(Len(B.signals))) THEN {}
                              ELSE {"index_out_of_range"}
                  IN  IF d.kind = "none"
                      THEN Return([top EXCEPT !.elem = elem], Zero, accessLog, tags)
                      ELSE IF InTable(B, d.kind, d.off)
                      THEN /\ stack' = [stack EXCEPT ![Len(stack)] =
                                  [top EXCEPT !.pc = "elem", !.kind = d.kind,
                                      !.elem = elem, !.off = d.off,
                                      !.rec = At(Table(B, d.kind), d.off)]]
                           /\ undef' = undef \cup tags
                           /\ UNCHANGED << base, regs, status, arg, result,
                                           accessLog, last, prev, ncalls >>
                      ELSE \/ \E rec \in Fetch(B, d.kind, d.off) :
                                /\ stack' = [stack EXCEPT ![Len(stack)] =
                                       [top EXCEPT !.pc = "elem",
                                           !.kind = d.kind, !.elem = elem,
                                           !.off = d.off, !.rec = rec]]
                                /\ undef' = undef \cup {"index_out_of_range"}
                                /\ UNCHANGED << base, regs, status, arg,
                                       result, accessLog, last, prev, ncalls >>
                           \/ Trap({"index_out_of_range"})

\* get_frequency(Ge)
GetFrequencyGenerator ==
    /\ status = "running"
    /\ top.pc = "elem" /\ top.kind = "gen"
    /\ LET gen == top.rec
           acc == FieldAccess(B, top.id, "control", gen.control)
           index == FieldValue(B, regs, gen.control, Zero)
           fr == [top EXCEPT !.reads = acc, !.vals = [control |-> index]]
       IN  Return(fr, GeneratorResult(gen.values, index), accessLog \o acc, {})

\* get_frequency(Pl), up to the call of getFrequency(pll.input)
GetFrequencyPllInput ==
    /\ status = "running"
    /\ top.pc = "elem" /\ top.kind = "pll"
    /\ Push([top EXCEPT !.pc = "wait", !.calls = << top.rec.input >>],
            top.rec.input, accessLog)

\* get_frequency(Pl), from the return of that call
GetFrequencyPll ==
    /\ status = "running"
    /\ top.pc = "resume" /\ top.kind = "pll"
    /\ LET pll == top.rec
           input_freq == top.ret
           fb_int == FieldValue(B, regs, pll.feedback_integer, One)
           fb_frac == FieldValue(B, regs, pll.feedback_fraction, Zero)
           post_div == FieldValue(B, regs, pll.post_divider, One)
           acc == FieldAccess(B, top.id, "feedback_integer", pll.feedback_integer)
                  \o FieldAccess(B, top.id, "feedback_fraction", pll.feedback_fraction)
                  \o FieldAccess(B, top.id, "post_divider", pll.post_divider)
           d == PllDouble(input_freq, fb_int, fb_frac, post_div)
           fr == [top EXCEPT !.reads = acc,
                     !.vals = [feedback_integer |-> fb_int,
                               feedback_fraction |-> fb_frac,
                               post_divider |-> post_div]]
           tags == IF post_div = Zero THEN {"division_by_zero"}
                   ELSE {"conversion_out_of_range"}
       IN  IF DblFitsU32(d)
           THEN Return(fr, DblTrunc(d), accessLog \o acc, {})
           ELSE \/ \E v \in UndefinedConversion(d) :
                     Return(fr, v, accessLog \o acc, tags)
                \/ Trap(tags)

\* get_frequency(Ga), up to the call of getFrequency(gate.input)
GetFrequencyGate ==
    /\ status = "running"
    /\ top.pc = "elem" /\ top.kind = "gate"
    /\ LET gate == top.rec
           acc == FieldAccess(B, top.id, "control", gate.control)
           fr == [top EXCEPT !.reads = acc,
                     !.vals = [control |-> FieldValue(B, regs, gate.control, Zero)]]
       IN  IF GateOpen(B, regs, gate.control)
           THEN Push([fr EXCEPT !.pc = "wait", !.calls = << gate.input >>],
                     gate.input, accessLog \o acc)
           ELSE Return(fr, Zero, accessLog \o acc, {})

\* get_frequency(Ga), returning what getFrequency(gate.input) returned
GetFrequencyGateReturn ==
    /\ status = "running"
    /\ top.pc = "resume" /\ top.kind = "gate"
    /\ Return(top, top.ret, accessLog, {})

\* get_frequency(Di), up to the call of getFrequency(div.input)
GetFrequencyDividerInput ==
    /\ status = "running"
    /\ top.pc = "elem" /\ top.kind = "div"
    /\ Push([top EXCEPT !.pc = "wait", !.calls = << top.rec.input >>],
            top.rec.input, accessLog)

\* get_frequency(Di), from the return of that call
GetFrequencyDivider ==
    /\ status = "running"
    /\ top.pc = "resume" /\ top.kind = "div"
    /\ LET div == top.rec
           input_freq == top.ret
           factor == FieldValue(B, regs, div.factor, FromInt(div.value))
           denom == FieldValue(B, regs, div.denominator, One)
           acc == FieldAccess(B, top.id, "factor", div.factor)
                  \o FieldAccess(B, top.id, "denominator", div.denominator)
           fr == [top EXCEPT !.reads = acc,
                     !.vals = [factor |-> factor, denominator |-> denom]]
       IN  IF factor # Zero
           THEN Return(fr, DividerResult(input_freq, factor, denom),
                       accessLog \o acc, {})
           ELSE \/ \E v \in UndefinedQuotient :
                     Return(fr, v, accessLog \o acc, {"division_by_zero"})
                \/ Trap({"division_by_zero"})

\* get_frequency(Mu), up to the call of getFrequency for the selected input
GetFrequencyMux ==
    /\ status = "running"
    /\ top.pc = "elem" /\ top.kind = "mux"
    /\ LET mux == top.rec
           acc == FieldAccess(B, top.id, "control", mux.control)
           index == FieldValue(B, regs, mux.control, Zero)
           fr == [top EXCEPT !.reads = acc, !.vals = [control |-> index]]
       IN  IF ~MuxInRange(mux.inputs, index)
           THEN Return(fr, Zero, accessLog \o acc, {})
           ELSE Push([fr EXCEPT !.pc = "wait",
                         !.calls = << MuxSelected(mux.inputs, index) >>],
                     MuxSelected(mux.inputs, index), accessLog \o acc)

\* get_frequency(Mu), returning what that call returned
GetFrequencyMuxReturn ==
    /\ status = "running"
    /\ top.pc = "resume" /\ top.kind = "mux"
    /\ Return(top, top.ret, accessLog, {})

\* the signals a caller may name: every enumerator, one past them, and -1
SignalArgs(b) == -1 .. Len(b.signals)

Next ==
    \/ \E f \in Fields(B) : \E v \in At(B.domain, f) : SetRegister(f, v)
    \/ \E s \in SignalArgs(B) : Call(s)
    \/ GetFrequency
    \/ GetFrequencyGenerator
    \/ GetFrequencyPllInput
    \/ GetFrequencyPll
    \/ GetFrequencyGate
    \/ GetFrequencyGateReturn
    \/ GetFrequencyDividerInput
    \/ GetFrequencyDivider
    \/ GetFrequencyMux
    \/ GetFrequencyMuxReturn

Spec == Init /\ [][Next]_vars

(***************************************************************************)
(* The graph the tables declare: element e of a kind is the record of its  *)
(* kind numbered from the first element value of the kind.                 *)
(***************************************************************************)
DeclaredInputs(b, elem) ==
    IF elem = 0 \/ elem > last_mux(b) \/ elem <= last_gen(b) THEN << >>
    ELSE IF elem <= last_pll(b)
         THEN << At(b.plls, elem - last_gen(b) - 1).input >>
    ELSE IF elem <= last_gate(b)
         THEN << At(b.gates, elem - last_pll(b) - 1).input >>
    ELSE IF elem <= last_div(b)
         THEN << At(b.dividers, elem - last_gate(b) - 1).input >>
    ELSE At(b.muxes, elem - last_div(b) - 1).inputs

RECURSIVE MaxOver(_, _, _)
RECURSIVE DeclaredDepth(_, _)
MaxOver(b, inputs, i) ==
    IF i > Len(inputs) THEN 0
    ELSE LET d == DeclaredDepth(b, inputs[i])
             m == MaxOver(b, inputs, i + 1)
         IN  IF d > m THEN d ELSE m

\* the number of signals on the longest path from signal s to a source
DeclaredDepth(b, s) ==
    IF s < 0 \/ s >= Len(b.signals) THEN 1
    ELSE 1 + MaxOver(b, DeclaredInputs(b, At(b.signals, s).source), 1)

(***************************************************************************)
(* Claims.                                                                 *)
(***************************************************************************)
ArgOutOfRange == arg < 0 \/ arg >= Len(B.signals)

\* C1: for a signal index outside the signal table (index >= number of
\* signals, negative enumerator values included), getFrequency returns 0,
\* reads no register and does not recurse.
C1_OutOfRangeReturnsZero ==
    (status # "idle" /\ ArgOutOfRange) =>
        /\ status \in {"running", "done"}
        /\ ncalls = 1
        /\ accessLog = << >>
        /\ undef = {}
        /\ Len(stack) <= 1
        /\ status = "done" => result = Zero

\* C1, its case: a call for the enumerator value -1 has returned
C1_Witness == status = "done" /\ arg = -1 /\ result = Zero /\ ncalls = 1

\* C2: every source element value e, 1 <= e <= last_mux, is dispatched to
\* the kind whose sub-range holds e at an offset inside that kind's table:
\* no element table is indexed out of range, and distinct values of e
\* address distinct records.
C2_DispatchInsideTables ==
    /\ \A i \in 1 .. Len(stack) :
          stack[i].kind # "none" =>
              /\ 1 <= stack[i].elem /\ stack[i].elem <= last_mux(B)
              /\ 0 <= stack[i].off
              /\ stack[i].off < Len(Table(B, stack[i].kind))
    /\ \A e1, e2 \in 1 .. last_mux(B) :
          e1 # e2 => Dispatch(B, e1) # Dispatch(B, e2)

\* C3: resolving a Mux reads its selector (0 when the field is absent); a
\* selector inside the input list resolves exactly that one upstream signal
\* and returns its frequency, a selector outside it returns 0; no other
\* input is resolved and no register is read for an unselected input.
C3_MuxResolvesOnlySelected ==
    /\ last.kind = "mux" =>
          LET mux == last.rec
              sel == IF HasGet(B, mux.control) THEN regs[mux.control] ELSE Zero
          IN  /\ last.vals.control = sel
              /\ Len(last.reads) = (IF HasGet(B, mux.control) THEN 1 ELSE 0)
              /\ \A i \in 1 .. Len(last.reads) :
                    last.reads[i].field = mux.control
              /\ IF Less(sel, FromInt(Len(mux.inputs)))
                 THEN /\ last.calls = << mux.inputs[ToInt(sel) + 1] >>
                      /\ last.out = last.ret
                      /\ last.logLen = Len(last.reads) + last.childLen
                 ELSE /\ last.calls = << >>
                      /\ last.out = Zero
                      /\ last.logLen = Len(last.reads)
    /\ \A i \in 1 .. Len(stack) - 1 :
          stack[i].kind = "mux" => stack[i].calls = << stack[i + 1].sig >>

\* C3, its case: a Mux of three inputs whose selector reads 1 has returned
\* the frequency of its second input
C3_Witness ==
    /\ last.kind = "mux"
    /\ Len(last.rec.inputs) = 3
    /\ HasGet(B, last.rec.control)
    /\ last.vals.control = One
    /\ last.calls = << last.rec.inputs[2] >>
    /\ last.out # Zero

\* C4: a resolve that meets a Pll whose post-divider reads 0, or a Divider
\* whose effective divisor is 0, completes with a defined result, and never
\* ends in a division fault or an undefined result.
C4_ZeroDivisorIsDefined ==
    /\ "division_by_zero" \notin undef
    /\ (last.kind = "pll" /\ last.vals.post_divider = Zero) => status # "fault"
    /\ (last.kind = "div" /\ last.vals.factor = Zero) => status # "fault"

\* floor(input_freq * (fb_int * 65536 + fb_frac) / (65536 * post_div)),
\* computed exactly and then cut to 32 bits
PllExact(input_freq, fb_int, fb_frac, post_div) ==
    Wrap(Quot(Mul(input_freq, Add(Mul(fb_int, FromInt(FracDenom)), fb_frac)),
              Mul(FromInt(FracDenom), post_div)),
         U32Bits)

\* C5: for every input frequency, integer and fractional feedback and
\* nonzero post-divider, resolving a Pll returns
\* floor(input_freq * (fb_int * 65536 + fb_frac) / (65536 * post_div))
\* computed exactly and then truncated to 32 bits.
C5_PllExactFloor ==
    (last.kind = "pll" /\ last.vals.post_divider # Zero) =>
        last.out = PllExact(last.ret, last.vals.feedback_integer,
                            last.vals.feedback_fraction,
                            last.vals.post_divider)

\* C6: for every input frequency and nonzero divisor, resolving a Divider
\* returns floor(input_freq * multiplier / divisor) truncated to 32 bits,
\* the divisor read from the factor field or else the fixed value, the
\* multiplier read from the denominator field or else 1; the 64-bit product
\* does not wrap.
C6_DividerQuotient ==
    last.kind = "div" =>
        LET div == last.rec
            divisor == IF HasGet(B, div.factor) THEN regs[div.factor]
                       ELSE FromInt(div.value)
            multiplier == IF HasGet(B, div.denominator)
                          THEN regs[div.denominator] ELSE One
        IN  /\ last.vals.factor = divisor
            /\ last.vals.denominator = multiplier
            /\ divisor # Zero =>
                  /\ last.out = Wrap(Quot(Mul(last.ret, multiplier), divisor),
                                     U32Bits)
                  /\ Less(Mul(last.ret, multiplier), Pow2(U64Bits))

\* C6, its case: a Divider has returned a quotient of a product that does
\* not fit 32 bits
C6_Witness ==
    /\ last.kind = "div"
    /\ last.vals.factor = Hz(5)
    /\ last.vals.denominator = Hz(50)
    /\ last.ret = Hz(100000000)
    /\ last.out = Hz(1000000000)

\* C7: resolving a Gate whose control field reads 0 returns 0 whatever the
\* upstream frequency, and resolving a Gate whose control field reads 1
\* returns exactly the resolved frequency of its input signal.
C7_GateFollowsControl ==
    /\ (last.kind = "gate" /\ HasGet(B, last.rec.control)) =>
          /\ last.vals.control = regs[last.rec.control]
          /\ regs[last.rec.control] = Zero =>
                (last.out = Zero /\ last.calls = << >>)
          /\ regs[last.rec.control] = One =>
                (last.calls = << last.rec.input >> /\ last.out = last.ret)
    /\ \A i \in 1 .. Len(stack) - 1 :
          stack[i].kind = "gate" =>
              /\ stack[i].calls = << stack[i].rec.input >>
              /\ stack[i + 1].sig = stack[i].rec.input
              /\ regs[stack[i].rec.control] # Zero

\* C7, its case: a Gate whose control reads 1 has returned a nonzero
\* upstream frequency
C7_Witness ==
    /\ last.kind = "gate"
    /\ HasGet(B, last.rec.control)
    /\ regs[last.rec.control] = One
    /\ last.out = last.ret
    /\ last.out # Zero

\* C8: on an acyclic signal graph, for any register state, every
\* getFrequency call terminates, its recursion no deeper than the graph
\* (each element recurses into at most one upstream signal), with no effect
\* other than register reads.
C8_DepthWithinGraph ==
    /\ status # "overflow"
    /\ Len(stack) <= DeclaredDepth(B, arg)
    /\ \A i \in 1 .. Len(stack) : Len(stack[i].calls) <= 1
    /\ \A i \in 1 .. Len(accessLog) : accessLog[i].op = "get"

\* C9: the value returned for a signal depends only on the tables and the
\* register state at the call: with the register state unchanged, a repeated
\* call for the same signal returns the same result and reads the same set
\* of register fields.
C9_RepeatedCallsAgree ==
    (status = "done" /\ prev.known) =>
        /\ result = prev.result
        /\ ReadSet(accessLog) = prev.reads

\* C10 as stated: during one getFrequency call each register field
\* consulted is read at most once over the whole chain of elements, and no
\* write accessor is invoked.
C10_EachFieldReadOnce ==
    /\ \A i, j \in 1 .. Len(accessLog) :
          i # j => accessLog[i].field # accessLog[j].field
    /\ \A i \in 1 .. Len(accessLog) : accessLog[i].op = "get"

\* C10 as amended: during one getFrequency call each register-field
\* reference of each visited element is read at most once per visit of the
\* element, and no write accessor is invoked.
C10_EachReferenceReadOnce ==
    /\ \A i, j \in 1 .. Len(accessLog) :
          i # j => << accessLog[i].visit, accessLog[i].slot >>
                   # << accessLog[j].visit, accessLog[j].slot >>
    /\ \A i \in 1 .. Len(accessLog) : accessLog[i].op = "get"

\* C10, its case: a call has returned after two elements of its chain
\* consulted the same register field
C10_Witness ==
    /\ status = "done"
    /\ \E i, j \in 1 .. Len(accessLog) :
          /\ i # j
          /\ accessLog[i].field = accessLog[j].field
          /\ accessLog[i].visit # accessLog[j].visit
=============================================================================
